---- MODULE Spec2Model ----
(***************************************************************************)
(* Model of the marine-heatwave RAG repository.                            *)
(*                                                                         *)
(*   Spec        the interactive query session of rag_prompt.main          *)
(*   SpecScrape  repeated runs of scrape_marine_heatwave_discussion        *)
(*   SpecSyncLog the same runs, with a sync log that can become unreadable *)
(*   SpecBuild   runs of create_embedding_db.main                          *)
(*                                                                         *)
(* Text is a sequence of tokens.  Text typed by the user is a sequence of  *)
(* single characters, so that str.strip and str.lower are computed; the    *)
(* fixed lines of the templates are one token each.  Relevance scores are  *)
(* in tenths (7 is 0.7).                                                   *)
(***************************************************************************)
EXTENDS Integers, Sequences, FiniteSets, TLC

VARIABLES
    pc,            \* position of rag_prompt.main
    argv,          \* the command line of the query tool
    args,          \* the parsed arguments
    chroma_db,     \* TRUE once the Collection handle is open
    llm,           \* TRUE once the language-model handle is open
    chat_history,  \* the cached chat history string
    line,          \* what input() returned, before strip
    user_query,    \* the stripped input
    result,        \* similarity_search_with_relevance_scores' return value
    result_screen, \* the results that passed the threshold
    rag_context,   \* the context block
    prompt,        \* the composed prompt
    response,      \* the language model's answer
    console,       \* the last status line printed
    exit_via,      \* how the loop was left: the break or the except clause
    clock,         \* datetime.now(), in seconds
    nInputs,       \* lines read so far
    searchCalls,   \* calls of similarity_search_with_relevance_scores so far
    composeCalls,  \* calls of rag_query_template so far
    llmCalls,      \* calls of llm.invoke so far
    \* scrape_marine_heatwave.py
    attempts,      \* runs of scrape_marine_heatwave_discussion so far
    saveCalls,     \* calls of save_discussion_data so far
    data_dir,      \* TRUE when DATA_DIR exists
    sync_log,      \* the file SYNC_LOG: missing, malformed, or a list of entries
    data_files,    \* the discussion files in DATA_DIR, by forecast date
    site,          \* the web page: ok, unreachable, or without its sections
    forecast,      \* the forecast the page shows, an index of ForecastDates
    disk,          \* what writing a discussion file does: ok, or how it fails
    envEvents,     \* changes of site, forecast and disk so far
    now,           \* datetime.now() of the scraper: a tick per reading
    scrape_console,\* what the last run of the scraper printed last
    \* create_embedding_db.py
    build_pc,      \* position of create_embedding_db.main
    builds,        \* runs of create_embedding_db.main so far
    md_files,      \* the *.md files in data/, by name: the text the loader reads
    documents,     \* the documents load_documents returned
    chunks,        \* the chunks document_chunking returned
    chroma,        \* the directory chroma_path: whether it exists, its records
    fileEvents     \* files added to data/ so far

ragVars == <<pc, argv, args, chroma_db, llm, chat_history, line, user_query,
             result, result_screen, rag_context, prompt, response, console,
             exit_via, clock, nInputs, searchCalls, composeCalls, llmCalls>>

scrapeVars == <<attempts, saveCalls, data_dir, sync_log, data_files, site,
                forecast, disk, envEvents, now, scrape_console>>

buildVars == <<build_pc, builds, md_files, documents, chunks, chroma, fileEvents>>

vars == <<ragVars, scrapeVars, buildVars>>

-----------------------------------------------------------------------------
(* Bounds of the model *)

MaxInputs == 2
MaxClock == 1
MaxAttempts == 60
MaxEnvEvents == 1
MaxBuilds == 2
MaxDocLen == 2

(* Program constants *)

DefaultTopK == 3
Threshold == 7
SyncLogCap == 50
ChunkSize == 1000
ChunkOverlap == 100

-----------------------------------------------------------------------------
(* Text *)

NL2 == "\n\n"

RECURSIVE Join(_, _)
\* sep.join(parts), parts a sequence of texts
Join(parts, sep) ==
    IF parts = <<>> THEN <<>>
    ELSE IF Len(parts) = 1 THEN Head(parts)
    ELSE Head(parts) \o <<sep>> \o Join(Tail(parts), sep)

LowerChar(c) ==
    CASE c = "Q" -> "q" [] c = "U" -> "u" [] c = "I" -> "i" [] c = "T" -> "t"
      [] c = "E" -> "e" [] c = "X" -> "x" [] OTHER -> c

Lower(s) == [i \in 1..Len(s) |-> LowerChar(s[i])]

IsSpace(c) == c \in {" ", "\n"}

RECURSIVE LStrip(_)
LStrip(s) == IF s # <<>> /\ IsSpace(Head(s)) THEN LStrip(Tail(s)) ELSE s

RECURSIVE RStrip(_)
RStrip(s) ==
    IF s # <<>> /\ IsSpace(s[Len(s)]) THEN RStrip(SubSeq(s, 1, Len(s) - 1)) ELSE s

Strip(s) == RStrip(LStrip(s))

ExitKeywords == { <<"q", "u", "i", "t">>, <<"e", "x", "i", "t">> }

\* mutant: the exit test without .lower()
IsExitCommandCaseSensitive(q) == q \in ExitKeywords

IsExitCommand(q) == Lower(q) \in ExitKeywords

-----------------------------------------------------------------------------
(* rag_prompt.py: the two templates *)

PromptRole == "You are a knowledgeable assistant."
PromptInstruction ==
    "Use the following context and previous cached chat history to answer the question."
PromptDelimiter == "----"
PromptContextLabel == "Context:"
PromptHistoryLabel == "Cached Chat History: "
PromptIgnoreNote == "(If the chat history is empty, just ignore it)"
PromptQuestionLabel == "Answer the question: "

\* mutant: the context block and the history block change places
rag_query_template_swapped(context, query, cached_chat_history) ==
    Join(<< <<PromptRole>>,
            <<PromptInstruction>>,
            <<PromptDelimiter>>,
            <<PromptContextLabel>>,
            cached_chat_history,
            <<PromptDelimiter>>,
            <<PromptHistoryLabel>> \o context,
            <<PromptIgnoreNote>>,
            <<PromptDelimiter>>,
            <<PromptQuestionLabel>> \o query >>, NL2) \o <<NL2>>

rag_query_template(context, query, cached_chat_history) ==
    Join(<< <<PromptRole>>,
            <<PromptInstruction>>,
            <<PromptDelimiter>>,
            <<PromptContextLabel>>,
            context,
            <<PromptDelimiter>>,
            <<PromptHistoryLabel>> \o cached_chat_history,
            <<PromptIgnoreNote>>,
            <<PromptDelimiter>>,
            <<PromptQuestionLabel>> \o query >>, NL2) \o <<NL2>>

CacheHeader ==
    "The following is a previous user query and your answer at the following time: "
CacheQueryLabel == "User's previous query:"
CacheAnswerLabel == "Your previous answer:"

\* strftime("%Y-%m-%d %H:%M:%S") of a clock value
TimeStamp(t) == ToString(t)

cache_query_answer_template(query, llm_answer, t) ==
    Join(<< <<CacheHeader, TimeStamp(t), ".">>,
            <<CacheQueryLabel>>,
            query,
            <<CacheAnswerLabel>>,
            llm_answer >>, NL2) \o <<NL2>>

-----------------------------------------------------------------------------
(* rag_prompt.py: retrieval *)

\* the chunks of the Collection; a chunk's page_content is one token
Chunks == {"chunk1", "chunk2"}
PageContent(c) == <<c>>

\* relevance scores the similarity search may report, in tenths
Scores == {6, 7, 8}

ContextDelimiter == "\n\n****\n\n"

Min(a, b) == IF a < b THEN a ELSE b

\* what similarity_search_with_relevance_scores(query, k) may return: at most k
\* distinct chunks, highest score first
SearchResults(k) ==
    UNION { { r \in [1..n -> [doc : Chunks, score : Scores]] :
                /\ \A i, j \in 1..n : i < j => r[i].doc # r[j].doc
                /\ \A i, j \in 1..n : i < j => r[i].score >= r[j].score }
            : n \in 0..Min(k, Cardinality(Chunks)) }

\* mutant: the screening test dropped, every result kept
PassesThresholdAlways(score, threshold) == TRUE

\* mutant: the screening test strict, score > 0.7
PassesThresholdStrict(score, threshold) == score > threshold

\* the test of the screening loop, score >= 0.7
PassesThreshold(score, threshold) == score >= threshold

RECURSIVE ScreenResultsAt(_, _)
\* the screening loop: keep, in order, the results that pass
ScreenResultsAt(r, threshold) ==
    IF r = <<>> THEN <<>>
    ELSE (IF PassesThreshold(Head(r).score, threshold) THEN <<Head(r)>> ELSE <<>>)
         \o ScreenResultsAt(Tail(r), threshold)

\* the loop as main runs it: the threshold is the literal in the test
ScreenResults(r) == ScreenResultsAt(r, Threshold)

\* "\n\n****\n\n".join(doc.page_content for doc in doc_contents)
BuildContext(screened) ==
    Join([i \in 1..Len(screened) |-> PageContent(screened[i].doc)], ContextDelimiter)

-----------------------------------------------------------------------------
(* rag_prompt.py: main *)

LoopStates == {"AWAITING_INPUT", "RETRIEVING", "COMPOSING", "GENERATING", "CACHING"}

\* the options argparse declares
DeclaredOptions == {"--num_top_ans", "--embedding_db_path", "--model"}

\* command lines: none, some or all of --num_top_ans K and --threshold T
CommandLines ==
    UNION { [opts -> 1..2] : opts \in SUBSET {"--num_top_ans", "--threshold"} }

\* the lines the user may type
Inputs ==
    { <<"q", "u", "i", "t">>,
      <<"Q", "u", "I", "T">>,
      <<" ", "e", "x", "i", "t", " ">>,
      <<"q", "u", "i", "t", " ", "m">>,
      <<" ", "m">>,
      <<>> }

\* the answers the language model may give
Answers == { <<"answer1">>, <<"answer2">> }

MsgUsage == "error: unrecognized arguments"
MsgDbLoaded == "Database loaded"
MsgDbError == "Error loading database"
MsgModelLoaded == "Model loaded"
MsgModelError == "Error loading model"
MsgSearching == "Searching relevant documents..."
MsgNoRelevant == "No relevant documents found."
MsgFound == "Found relevant documents"
MsgRetrieveError == "Error retrieving documents"
MsgGenerating == "Generating response..."
MsgAnswer == "Answer:"
MsgGenerateError == "Error generating response"
MsgThanks == "Thanks for using the Marine Heatwave RAG System!"
MsgTraceback == "Traceback (most recent call last)"

RagInit ==
    /\ pc = "START"
    /\ argv \in CommandLines
    /\ args = [num_top_ans |-> DefaultTopK]
    /\ chroma_db = FALSE
    /\ llm = FALSE
    /\ chat_history = <<>>
    /\ line = <<>>
    /\ user_query = <<>>
    /\ result = <<>>
    /\ result_screen = <<>>
    /\ rag_context = <<>>
    /\ prompt = <<>>
    /\ response = <<>>
    /\ console = ""
    /\ exit_via = "none"
    /\ clock = 0
    /\ nInputs = 0
    /\ searchCalls = 0
    /\ composeCalls = 0
    /\ llmCalls = 0

\* parser.parse_args(): an option the parser does not declare ends the process
ParseArgs ==
    /\ pc = "START"
    /\ IF DOMAIN argv \subseteq DeclaredOptions
       THEN /\ args' = [num_top_ans |->
                          IF "--num_top_ans" \in DOMAIN argv
                          THEN argv["--num_top_ans"] ELSE DefaultTopK]
            /\ pc' = "INIT"
            /\ UNCHANGED console
       ELSE /\ pc' = "USAGE_ERROR"
            /\ console' = MsgUsage
            /\ UNCHANGED args
    /\ UNCHANGED <<argv, chroma_db, llm, chat_history, line, user_query, result,
                   result_screen, rag_context, prompt, response, exit_via, clock,
                   nInputs, searchCalls, composeCalls, llmCalls>>
    /\ UNCHANGED <<scrapeVars, buildVars>>

\* the first try block: open the Collection, or report and return
LoadDatabase ==
    /\ pc = "INIT"
    /\ ~chroma_db
    /\ \E ok \in BOOLEAN :
         IF ok
         THEN /\ chroma_db' = TRUE
              /\ console' = MsgDbLoaded
              /\ pc' = pc
         ELSE /\ pc' = "ABORTED"
              /\ console' = MsgDbError
              /\ UNCHANGED chroma_db
    /\ UNCHANGED <<argv, args, llm, chat_history, line, user_query, result,
                   result_screen, rag_context, prompt, response, exit_via, clock,
                   nInputs, searchCalls, composeCalls, llmCalls>>
    /\ UNCHANGED <<scrapeVars, buildVars>>

\* mutant: the second try block without its return
LoadModelNoReturn ==
    /\ pc = "INIT"
    /\ chroma_db
    /\ \E ok \in BOOLEAN :
         /\ llm' = ok
         /\ console' = IF ok THEN MsgModelLoaded ELSE MsgModelError
         /\ chat_history' = <<>>
         /\ pc' = "AWAITING_INPUT"
    /\ UNCHANGED <<argv, args, chroma_db, line, user_query, result,
                   result_screen, rag_context, prompt, response, exit_via, clock,
                   nInputs, searchCalls, composeCalls, llmCalls>>
    /\ UNCHANGED <<scrapeVars, buildVars>>

\* the second try block: open the language model, or report and return; then
\* the chat history starts empty and the loop is entered
LoadModel ==
    /\ pc = "INIT"
    /\ chroma_db
    /\ \E ok \in BOOLEAN :
         IF ok
         THEN /\ llm' = TRUE
              /\ console' = MsgModelLoaded
              /\ chat_history' = <<>>
              /\ pc' = "AWAITING_INPUT"
         ELSE /\ pc' = "ABORTED"
              /\ console' = MsgModelError
              /\ UNCHANGED <<llm, chat_history>>
    /\ UNCHANGED <<argv, args, chroma_db, line, user_query, result,
                   result_screen, rag_context, prompt, response, exit_via, clock,
                   nInputs, searchCalls, composeCalls, llmCalls>>
    /\ UNCHANGED <<scrapeVars, buildVars>>

\* the locals of the previous iteration are dead once input() has returned:
\* each is assigned again before it is read
ClearIteration ==
    /\ result' = <<>>
    /\ result_screen' = <<>>
    /\ rag_context' = <<>>
    /\ prompt' = <<>>
    /\ response' = <<>>

\* input(...).strip(), then the test for the exit commands
ReadInput ==
    /\ pc = "AWAITING_INPUT"
    /\ nInputs < MaxInputs
    /\ \E l \in Inputs :
         /\ line' = l
         /\ user_query' = Strip(l)
         /\ IF IsExitCommand(Strip(l))
            THEN /\ pc' = "TERMINATED"
                 /\ exit_via' = "break"
                 /\ console' = MsgThanks
            ELSE /\ pc' = "RETRIEVING"
                 /\ console' = MsgSearching
                 /\ UNCHANGED exit_via
    /\ nInputs' = nInputs + 1
    /\ ClearIteration
    /\ UNCHANGED <<argv, args, chroma_db, llm, chat_history, clock,
                   searchCalls, composeCalls, llmCalls>>
    /\ UNCHANGED <<scrapeVars, buildVars>>

\* input() at end of input raises EOFError, which no clause of main catches
EndOfInput ==
    /\ pc = "AWAITING_INPUT"
    /\ pc' = "CRASHED"
    /\ console' = MsgTraceback
    /\ UNCHANGED <<argv, args, chroma_db, llm, chat_history, line, user_query,
                   result, result_screen, rag_context, prompt, response,
                   exit_via, clock, nInputs, searchCalls, composeCalls, llmCalls>>
    /\ UNCHANGED <<scrapeVars, buildVars>>

\* Ctrl+C anywhere inside the outer try: KeyboardInterrupt is no Exception, so
\* the inner clauses let it through and the outer clause ends the loop
Interrupt ==
    /\ pc \in LoopStates
    /\ pc' = "TERMINATED"
    /\ exit_via' = "KeyboardInterrupt"
    /\ console' = MsgThanks
    /\ UNCHANGED <<argv, args, chroma_db, llm, chat_history, line, user_query,
                   result, result_screen, rag_context, prompt, response,
                   clock, nInputs, searchCalls, composeCalls, llmCalls>>
    /\ UNCHANGED <<scrapeVars, buildVars>>

\* Ctrl+C before the outer try: nothing catches it
InterruptInit ==
    /\ pc \in {"START", "INIT"}
    /\ pc' = "CRASHED"
    /\ console' = MsgTraceback
    /\ UNCHANGED <<argv, args, chroma_db, llm, chat_history, line, user_query,
                   result, result_screen, rag_context, prompt, response,
                   exit_via, clock, nInputs, searchCalls, composeCalls, llmCalls>>
    /\ UNCHANGED <<scrapeVars, buildVars>>

\* mutant: the retrieval except clause without its continue
RetrieveErrorFallsThrough ==
    /\ pc = "RETRIEVING"
    /\ searchCalls' = searchCalls + 1
    /\ \/ /\ console' = MsgRetrieveError
          /\ pc' = "COMPOSING"
          /\ UNCHANGED <<result, result_screen, rag_context>>
       \/ \E r \in SearchResults(args.num_top_ans) :
            /\ result' = r
            /\ result_screen' = ScreenResults(r)
            /\ IF ScreenResults(r) = <<>>
               THEN /\ console' = MsgNoRelevant
                    /\ pc' = "AWAITING_INPUT"
                    /\ UNCHANGED rag_context
               ELSE /\ rag_context' = BuildContext(ScreenResults(r))
                    /\ console' = MsgFound
                    /\ pc' = "COMPOSING"
    /\ UNCHANGED <<argv, args, chroma_db, llm, chat_history, line, user_query,
                   prompt, response, exit_via, clock, nInputs, composeCalls,
                   llmCalls>>
    /\ UNCHANGED <<scrapeVars, buildVars>>

\* the retrieval try block: search, screen, build the context
Retrieve ==
    /\ pc = "RETRIEVING"
    /\ searchCalls' = searchCalls + 1
    /\ \/ \* the search raises
          /\ console' = MsgRetrieveError
          /\ pc' = "AWAITING_INPUT"
          /\ UNCHANGED <<result, result_screen, rag_context>>
       \/ \E r \in SearchResults(args.num_top_ans) :
            /\ result' = r
            /\ result_screen' = ScreenResults(r)
            /\ IF ScreenResults(r) = <<>>
               THEN /\ console' = MsgNoRelevant
                    /\ pc' = "AWAITING_INPUT"
                    /\ UNCHANGED rag_context
               ELSE /\ rag_context' = BuildContext(ScreenResults(r))
                    /\ console' = MsgFound
                    /\ pc' = "COMPOSING"
    /\ UNCHANGED <<argv, args, chroma_db, llm, chat_history, line, user_query,
                   prompt, response, exit_via, clock, nInputs, composeCalls,
                   llmCalls>>
    /\ UNCHANGED <<scrapeVars, buildVars>>

\* prompt = rag_query_template(rag_context, user_query, chat_history)
Compose ==
    /\ pc = "COMPOSING"
    /\ prompt' = rag_query_template(rag_context, user_query, chat_history)
    /\ composeCalls' = composeCalls + 1
    /\ console' = MsgGenerating
    /\ pc' = "GENERATING"
    /\ UNCHANGED <<argv, args, chroma_db, llm, chat_history, line, user_query,
                   result, result_screen, rag_context, response, exit_via,
                   clock, nInputs, searchCalls, llmCalls>>
    /\ UNCHANGED <<scrapeVars, buildVars>>

\* mutant: the history update moved out of the try block, so that a failed
\* generation is cached too
GenerateErrorCached ==
    /\ pc = "GENERATING"
    /\ llmCalls' = llmCalls + 1
    /\ \/ /\ console' = MsgGenerateError
          /\ pc' = "AWAITING_INPUT"
          /\ chat_history' =
                chat_history \o cache_query_answer_template(user_query, response, clock)
          /\ UNCHANGED response
       \/ \E a \in Answers :
            /\ response' = a
            /\ console' = MsgAnswer
            /\ pc' = "CACHING"
            /\ UNCHANGED chat_history
    /\ UNCHANGED <<argv, args, chroma_db, llm, line, user_query,
                   result, result_screen, rag_context, prompt, exit_via, clock,
                   nInputs, searchCalls, composeCalls>>
    /\ UNCHANGED <<scrapeVars, buildVars>>

\* mutant: the generation except clause ends with break
GenerateErrorBreaks ==
    /\ pc = "GENERATING"
    /\ llmCalls' = llmCalls + 1
    /\ \/ /\ console' = MsgGenerateError
          /\ pc' = "TERMINATED"
          /\ exit_via' = "break"
          /\ UNCHANGED response
       \/ \E a \in Answers :
            /\ response' = a
            /\ console' = MsgAnswer
            /\ pc' = "CACHING"
            /\ UNCHANGED exit_via
    /\ UNCHANGED <<argv, args, chroma_db, llm, chat_history, line, user_query,
                   result, result_screen, rag_context, prompt, clock,
                   nInputs, searchCalls, composeCalls>>
    /\ UNCHANGED <<scrapeVars, buildVars>>

\* response = llm.invoke(prompt), inside the generation try block
Generate ==
    /\ pc = "GENERATING"
    /\ llmCalls' = llmCalls + 1
    /\ \/ \* the call raises
          /\ console' = MsgGenerateError
          /\ pc' = "AWAITING_INPUT"
          /\ UNCHANGED response
       \/ \E a \in Answers :
            /\ response' = a
            /\ console' = MsgAnswer
            /\ pc' = "CACHING"
    /\ UNCHANGED <<argv, args, chroma_db, llm, chat_history, line, user_query,
                   result, result_screen, rag_context, prompt, exit_via, clock,
                   nInputs, searchCalls, composeCalls>>
    /\ UNCHANGED <<scrapeVars, buildVars>>

\* mutant: chat_history = ... in place of chat_history += ...
AppendHistoryOverwrites(history, entry) == entry

\* chat_history += entry
AppendHistory(history, entry) == history \o entry

\* chat_history += cache_query_answer_template(user_query, response)
Cache ==
    /\ pc = "CACHING"
    /\ \E t \in clock..Min(clock + 1, MaxClock) :
         /\ clock' = t
         /\ chat_history' = AppendHistory(chat_history,
                               cache_query_answer_template(user_query, response, t))
    /\ pc' = "AWAITING_INPUT"
    /\ UNCHANGED <<argv, args, chroma_db, llm, line, user_query, result,
                   result_screen, rag_context, prompt, response, console,
                   exit_via, nInputs, searchCalls, composeCalls, llmCalls>>
    /\ UNCHANGED <<scrapeVars, buildVars>>

Next ==
    \/ ParseArgs
    \/ LoadDatabase
    \/ LoadModel
    \/ ReadInput
    \/ EndOfInput
    \/ Interrupt
    \/ InterruptInit
    \/ Retrieve
    \/ Compose
    \/ Generate
    \/ Cache

-----------------------------------------------------------------------------
(* scrape_marine_heatwave.py *)

NOAA_PSL_URL == "https://psl.noaa.gov/marine-heatwaves/#report"

\* the forecast dates the page shows, one after the other
ForecastDates == <<"June_2025", "July_2025">>

NoLogFile == [state |-> "missing", entries |-> <<>>]
MalformedLogFile == [state |-> "malformed", entries |-> <<>>]

\* the entries of the log file; none when it is missing or does not parse
load_sync_log(file) ==
    IF file.state = "valid" THEN file.entries ELSE <<>>

\* mutant: the slice dropped
add_to_sync_log_uncapped(file, forecast_date, status, t) ==
    LET new_entry == [timestamp |-> t, forecast_date |-> forecast_date,
                      status |-> status, source_url |-> NOAA_PSL_URL]
    IN  [state |-> "valid", entries |-> <<new_entry>> \o load_sync_log(file)]

\* the log file after add_to_sync_log(forecast_date, status) at time t:
\* insert(0, new_entry), then [:50], then json.dump
add_to_sync_log(file, forecast_date, status, t) ==
    LET new_entry == [timestamp |-> t, forecast_date |-> forecast_date,
                      status |-> status, source_url |-> NOAA_PSL_URL]
        log_entries == <<new_entry>> \o load_sync_log(file)
    IN  [state |-> "valid",
         entries |-> SubSeq(log_entries, 1, Min(SyncLogCap, Len(log_entries)))]

\* the markdown file save_discussion_data composes
DiscussionFile(discussion_data) ==
    [extracted |-> discussion_data.timestamp,
     markdown_content |-> discussion_data.markdown_content]

\* a file opened for writing whose write raised
PartialFile == [extracted |-> 0, markdown_content |-> "partial"]

\* mutant: no test for an existing file
save_discussion_data_overwrites(files, discussion_data, d) ==
    LET forecast_date == discussion_data.forecast_date
        others == [x \in DOMAIN files \ {forecast_date} |-> files[x]]
    IN  [files |-> others @@ (forecast_date :> DiscussionFile(discussion_data)),
         saved |-> TRUE]

\* save_discussion_data: the files afterwards and the value returned
save_discussion_data(files, discussion_data, d) ==
    LET forecast_date == discussion_data.forecast_date IN
    IF forecast_date \in DOMAIN files
    THEN [files |-> files, saved |-> FALSE]
    ELSE CASE d = "ok" ->
                [files |-> files @@ (forecast_date :> DiscussionFile(discussion_data)),
                 saved |-> TRUE]
           [] d = "open_fails" ->
                [files |-> files, saved |-> FALSE]
           [] d = "write_fails" ->
                [files |-> files @@ (forecast_date :> PartialFile), saved |-> FALSE]

\* what a run prints last
MsgFetchError == "Error fetching webpage"
MsgSectionsMissing == "Could not find all required sections"
MsgScraped == "Successfully scraped marine heatwave discussion!"
MsgSkipped == "already exists - skipped scraping"

\* extract_discussion_sections on a page with all its sections
extract_discussion_sections(f, t) ==
    [timestamp |-> t,
     source_url |-> NOAA_PSL_URL,
     forecast_date |-> ForecastDates[f],
     markdown_content |-> "discussion"]

ScrapeInit ==
    /\ attempts = 0
    /\ saveCalls = 0
    /\ data_dir \in BOOLEAN
    /\ sync_log \in (IF data_dir THEN {NoLogFile, MalformedLogFile} ELSE {NoLogFile})
    /\ data_files = <<>>
    /\ site \in {"ok", "unreachable", "no_sections"}
    /\ forecast = 1
    /\ disk = "ok"
    /\ envEvents = 0
    /\ now = 1
    /\ scrape_console = ""

\* a run whose fetch_webpage returns None
ScrapeFetchFails ==
    /\ attempts < MaxAttempts
    /\ site = "unreachable"
    /\ attempts' = attempts + 1
    /\ data_dir' = TRUE
    /\ scrape_console' = MsgFetchError
    /\ UNCHANGED <<saveCalls, sync_log, data_files, site, forecast, disk,
                   envEvents, now>>
    /\ UNCHANGED <<ragVars, buildVars>>

\* mutant: the run leaves a partial file behind
ScrapeSectionsMissingWritesPartial ==
    /\ attempts < MaxAttempts
    /\ site = "no_sections"
    /\ attempts' = attempts + 1
    /\ data_dir' = TRUE
    /\ scrape_console' = MsgSectionsMissing
    /\ data_files' = [x \in DOMAIN data_files \cup {ForecastDates[forecast]} |->
                         PartialFile]
    /\ UNCHANGED <<saveCalls, sync_log, site, forecast, disk, envEvents, now>>
    /\ UNCHANGED <<ragVars, buildVars>>

\* a run whose extract_discussion_sections returns None
ScrapeSectionsMissing ==
    /\ attempts < MaxAttempts
    /\ site = "no_sections"
    /\ attempts' = attempts + 1
    /\ data_dir' = TRUE
    /\ scrape_console' = MsgSectionsMissing
    /\ UNCHANGED <<saveCalls, sync_log, data_files, site, forecast, disk,
                   envEvents, now>>
    /\ UNCHANGED <<ragVars, buildVars>>

\* a run that fetches and extracts, then saves and logs
ScrapeSaveAndLog ==
    /\ attempts < MaxAttempts
    /\ site = "ok"
    /\ LET discussion_data == extract_discussion_sections(forecast, now)
           saving == save_discussion_data(data_files, discussion_data, disk)
       IN  /\ data_files' = saving.files
           /\ sync_log' = add_to_sync_log(sync_log, discussion_data.forecast_date,
                               IF saving.saved THEN "success" ELSE "already_exists",
                               now + 1)
           /\ scrape_console' = IF saving.saved THEN MsgScraped ELSE MsgSkipped
    /\ now' = now + 2
    /\ attempts' = attempts + 1
    /\ saveCalls' = saveCalls + 1
    /\ data_dir' = TRUE
    /\ UNCHANGED <<site, forecast, disk, envEvents>>
    /\ UNCHANGED <<ragVars, buildVars>>

\* the page becomes unreachable, loses its sections, or recovers
SiteChanges ==
    /\ envEvents < MaxEnvEvents
    /\ \E s \in {"ok", "unreachable", "no_sections"} \ {site} : site' = s
    /\ envEvents' = envEvents + 1
    /\ UNCHANGED <<attempts, saveCalls, data_dir, sync_log, data_files,
                   forecast, disk, now, scrape_console>>
    /\ UNCHANGED <<ragVars, buildVars>>

\* the next forecast is published
ForecastPublished ==
    /\ envEvents < MaxEnvEvents
    /\ forecast < Len(ForecastDates)
    /\ forecast' = forecast + 1
    /\ envEvents' = envEvents + 1
    /\ UNCHANGED <<attempts, saveCalls, data_dir, sync_log, data_files,
                   site, disk, now, scrape_console>>
    /\ UNCHANGED <<ragVars, buildVars>>

\* writing discussion files starts or stops failing
DiskChanges ==
    /\ envEvents < MaxEnvEvents
    /\ \E d \in {"ok", "open_fails", "write_fails"} \ {disk} : disk' = d
    /\ envEvents' = envEvents + 1
    /\ UNCHANGED <<attempts, saveCalls, data_dir, sync_log, data_files,
                   site, forecast, now, scrape_console>>
    /\ UNCHANGED <<ragVars, buildVars>>

\* the log file stops being readable (entries still in it), or its content
\* stops being JSON
LogFileDamaged ==
    /\ envEvents < MaxEnvEvents
    /\ sync_log.state = "valid"
    /\ \/ sync_log' = [state |-> "unreadable", entries |-> sync_log.entries]
       \/ sync_log' = MalformedLogFile
    /\ envEvents' = envEvents + 1
    /\ UNCHANGED <<attempts, saveCalls, data_dir, data_files, site, forecast,
                   disk, now, scrape_console>>
    /\ UNCHANGED <<ragVars, buildVars>>

NextScrape ==
    \/ ScrapeFetchFails
    \/ ScrapeSectionsMissing
    \/ ScrapeSaveAndLog
    \/ SiteChanges
    \/ ForecastPublished
    \/ DiskChanges

-----------------------------------------------------------------------------
(* create_embedding_db.py *)

\* The texts of the model are sequences of single characters, all shorter
\* than ChunkSize: in RecursiveCharacterTextSplitter every split of such a
\* text is a good split and _merge_splits never flushes.
Chars == {"a", " ", "\n"}

Texts == UNION { [1..n -> Chars] : n \in 0..MaxDocLen }

\* the names of the files in data/
FileNames == { ForecastDates[i] : i \in 1..Len(ForecastDates) }

\* the separators RecursiveCharacterTextSplitter tries, in order
Separators == << <<"\n", "\n">>, <<"\n">>, <<" ">>, <<>> >>

\* sep occurs in text at position i
MatchAt(text, sep, i) ==
    /\ i >= 1
    /\ i + Len(sep) - 1 <= Len(text)
    /\ SubSeq(text, i, i + Len(sep) - 1) = sep

\* the first position from `from' on where sep occurs in text; 0 when none
FirstMatch(text, sep, from) ==
    IF \E i \in from..Len(text) : MatchAt(text, sep, i)
    THEN CHOOSE i \in from..Len(text) :
            /\ MatchAt(text, sep, i)
            /\ \A j \in from..(i - 1) : ~MatchAt(text, sep, j)
    ELSE 0

\* text.find(sub, start), positions counted from 0; -1 when not found
Find(text, sub, start) == FirstMatch(text, sub, start + 1) - 1

\* the first separator of Separators that occurs in text; the last one is the
\* empty separator
ChooseSeparator(text) ==
    LET found == { k \in 1..Len(Separators) :
                     Separators[k] = <<>> \/ FirstMatch(text, Separators[k], 1) # 0 }
    IN  Separators[CHOOSE k \in found : \A j \in found : k <= j]

RECURSIVE SplitFrom(_, _)
\* the pieces of t, which begins with sep: each piece keeps the separator
\* in front of it
SplitFrom(t, sep) ==
    LET m == FirstMatch(t, sep, Len(sep) + 1) IN
    IF m = 0 THEN <<t>>
    ELSE <<SubSeq(t, 1, m - 1)>> \o SplitFrom(SubSeq(t, m, Len(t)), sep)

\* _split_text_with_regex(text, separator, keep_separator=True): the pieces,
\* the empty ones left out
SplitKeep(text, sep) ==
    LET m == FirstMatch(text, sep, 1)
        pieces == IF sep = <<>> THEN [i \in 1..Len(text) |-> <<text[i]>>]
                  ELSE IF m = 0 THEN <<text>>
                  ELSE <<SubSeq(text, 1, m - 1)>>
                          \o SplitFrom(SubSeq(text, m, Len(text)), sep)
    IN  SelectSeq(pieces, LAMBDA x : x # <<>>)

RECURSIVE Concat(_)
\* "".join(docs)
Concat(docs) == IF docs = <<>> THEN <<>> ELSE Head(docs) \o Concat(Tail(docs))

\* mutant: strip_whitespace=False
join_docs_unstripped(docs) ==
    LET text == Concat(docs) IN IF text = <<>> THEN <<>> ELSE <<text>>

\* _join_docs(docs, ""): the joined text stripped, or nothing when that
\* is empty
join_docs(docs) ==
    LET text == Strip(Concat(docs)) IN IF text = <<>> THEN <<>> ELSE <<text>>

\* split_text(text) for a text shorter than ChunkSize: its splits merged
\* into one chunk, or none
split_text(text) ==
    LET splits == SplitKeep(text, ChooseSeparator(text))
    IN  IF splits = <<>> THEN <<>> ELSE join_docs(splits)

Max(a, b) == IF a > b THEN a ELSE b

\* the chunks of one document (create_documents with add_start_index=True);
\* the first chunk is searched from max(0, 0 + 0 - chunk_overlap)
ChunksOf(doc) ==
    LET parts == split_text(doc.page_content)
    IN  [i \in 1..Len(parts) |->
           [page_content |-> parts[i],
            source |-> doc.source,
            start_index |-> Find(doc.page_content, parts[i],
                                 Max(0, 0 + 0 - ChunkOverlap))]]

RECURSIVE document_chunking(_)
\* split_documents(documents): the chunks of each document, in order
document_chunking(docs) ==
    IF docs = <<>> THEN <<>>
    ELSE ChunksOf(Head(docs)) \o document_chunking(Tail(docs))

\* the orders in which DirectoryLoader can meet the files
Orders(names) ==
    { o \in [1..Cardinality(names) -> names] :
        \A i, j \in 1..Cardinality(names) : i # j => o[i] # o[j] }

\* load_documents: one Document per file, its path as metadata
load_documents(files, order) ==
    [i \in 1..Len(order) |-> [page_content |-> files[order[i]], source |-> order[i]]]

NoDatabase == [exists |-> FALSE, records |-> {}]

\* what an earlier build left at chroma_path
OldDatabase ==
    [exists |-> TRUE,
     records |-> {[id |-> <<0, 1>>, page_content |-> <<"a">>,
                   source |-> ForecastDates[1], start_index |-> 0]}]

\* Chroma.from_documents(chunks, ..., persist_directory): the collection at
\* the path, created when missing, with one record of a fresh id per chunk
\* added to it
from_documents(db, docs, b) ==
    [exists |-> TRUE,
     records |-> db.records \cup
                 { [id |-> <<b, i>>, page_content |-> docs[i].page_content,
                    source |-> docs[i].source,
                    start_index |-> docs[i].start_index] : i \in 1..Len(docs) }]

BuildInit ==
    /\ build_pc = "START"
    /\ builds = 0
    /\ md_files \in UNION { [D -> Texts] : D \in SUBSET FileNames }
    /\ documents = <<>>
    /\ chunks = <<>>
    /\ chroma \in {NoDatabase, OldDatabase}
    /\ fileEvents = 0

\* main: load_documents
LoadDocuments ==
    /\ build_pc = "START"
    /\ builds < MaxBuilds
    /\ builds' = builds + 1
    /\ \E order \in Orders(DOMAIN md_files) :
          documents' = load_documents(md_files, order)
    /\ build_pc' = "LOADED"
    /\ UNCHANGED <<md_files, chunks, chroma, fileEvents>>
    /\ UNCHANGED <<ragVars, scrapeVars>>

\* main: document_chunking
ChunkDocuments ==
    /\ build_pc = "LOADED"
    /\ chunks' = document_chunking(documents)
    /\ build_pc' = "CHUNKED"
    /\ UNCHANGED <<builds, md_files, documents, chroma, fileEvents>>
    /\ UNCHANGED <<ragVars, scrapeVars>>

\* mutant: the existing database is kept
CleanUpSkipped ==
    /\ build_pc = "CHUNKED"
    /\ build_pc' = "CLEANED"
    /\ UNCHANGED <<builds, md_files, documents, chunks, chroma, fileEvents>>
    /\ UNCHANGED <<ragVars, scrapeVars>>

\* main: shutil.rmtree(chroma_path) when the path exists
CleanUp ==
    /\ build_pc = "CHUNKED"
    /\ chroma' = IF chroma.exists THEN NoDatabase ELSE chroma
    /\ build_pc' = "CLEANED"
    /\ UNCHANGED <<builds, md_files, documents, chunks, fileEvents>>
    /\ UNCHANGED <<ragVars, scrapeVars>>

\* main: create_embedding_db returns
CreateDb ==
    /\ build_pc = "CLEANED"
    /\ chroma' = from_documents(chroma, chunks, builds)
    /\ build_pc' = "DONE"
    /\ UNCHANGED <<builds, md_files, documents, chunks, fileEvents>>
    /\ UNCHANGED <<ragVars, scrapeVars>>

\* main: create_embedding_db raises (the embedding service does not answer),
\* before or after the collection is created
CreateDbFails ==
    /\ build_pc = "CLEANED"
    /\ \/ chroma' = chroma
       \/ chroma' = [exists |-> TRUE, records |-> chroma.records]
    /\ build_pc' = "FAILED"
    /\ UNCHANGED <<builds, md_files, documents, chunks, fileEvents>>
    /\ UNCHANGED <<ragVars, scrapeVars>>

\* the build tool is started again
NextBuild ==
    /\ build_pc \in {"DONE", "FAILED"}
    /\ builds < MaxBuilds
    /\ build_pc' = "START"
    /\ documents' = <<>>
    /\ chunks' = <<>>
    /\ UNCHANGED <<builds, md_files, chroma, fileEvents>>
    /\ UNCHANGED <<ragVars, scrapeVars>>

\* a discussion file is added to data/
FileAdded ==
    /\ fileEvents < MaxEnvEvents
    /\ \E name \in FileNames \ DOMAIN md_files : \E text \in Texts :
          md_files' = md_files @@ (name :> text)
    /\ fileEvents' = fileEvents + 1
    /\ UNCHANGED <<build_pc, builds, documents, chunks, chroma>>
    /\ UNCHANGED <<ragVars, scrapeVars>>

NextBuildTool ==
    \/ LoadDocuments
    \/ ChunkDocuments
    \/ CleanUp
    \/ CreateDb
    \/ CreateDbFails
    \/ NextBuild
    \/ FileAdded

BuildIdle ==
    /\ build_pc = "START"
    /\ builds = 0
    /\ md_files = <<>>
    /\ documents = <<>>
    /\ chunks = <<>>
    /\ chroma = NoDatabase
    /\ fileEvents = 0

-----------------------------------------------------------------------------
(* The specifications: one tool runs, the others' state is as they start *)

ScrapeIdle ==
    /\ attempts = 0
    /\ saveCalls = 0
    /\ data_dir = FALSE
    /\ sync_log = NoLogFile
    /\ data_files = <<>>
    /\ site = "ok"
    /\ forecast = 1
    /\ disk = "ok"
    /\ envEvents = 0
    /\ now = 1
    /\ scrape_console = ""

RagIdle ==
    /\ RagInit
    /\ argv = <<>>

Init == RagInit /\ ScrapeIdle /\ BuildIdle

Spec == Init /\ [][Next]_vars

InitScrape == ScrapeInit /\ RagIdle /\ BuildIdle

SpecScrape == InitScrape /\ [][NextScrape]_vars

\* the scraper with a log file that can be damaged between runs
NextSyncLog ==
    \/ NextScrape
    \/ LogFileDamaged

SpecSyncLog == InitScrape /\ [][NextSyncLog]_vars

InitBuild == BuildInit /\ RagIdle /\ ScrapeIdle

SpecBuild == InitBuild /\ [][NextBuildTool]_vars

-----------------------------------------------------------------------------
(* Properties of the conversation loop *)

IsPrefix(a, b) == Len(a) <= Len(b) /\ SubSeq(b, 1, Len(a)) = a

\* the cache entries in a history: each entry has one header token
EntryCount(history) ==
    Cardinality({ i \in DOMAIN history : history[i] = CacheHeader })

NonePasses(r) == \A i \in DOMAIN r : r[i].score < Threshold

\* C1: the chat history only ever changes by the Cache step of an exchange
\* that got through retrieval, composition and generation, and that step
\* appends exactly the cache entry of that exchange's query and answer; so
\* every earlier history is a prefix of every later one.
C1_HistoryAppendOnly ==
    [][ /\ IsPrefix(chat_history, chat_history')
        /\ (chat_history' # chat_history) =>
              /\ pc = "CACHING"
              /\ Len(result_screen) > 0
              /\ composeCalls > 0
              /\ console = MsgAnswer
        /\ (pc = "CACHING" /\ pc' = "AWAITING_INPUT") =>
              /\ chat_history' = chat_history
                    \o cache_query_answer_template(user_query, response, clock')
              /\ EntryCount(chat_history') = EntryCount(chat_history) + 1
      ]_vars

\* C1 witness: two exchanges are cached, one after the other
C1_Witness ==
    /\ pc = "AWAITING_INPUT"
    /\ EntryCount(chat_history) = 2

\* C2: a failed language-model call leaves the loop at AWAITING_INPUT with
\* the chat history it had before the query, and does not end the session.
C2_GenerationErrorKeepsHistory ==
    [][ (llmCalls' # llmCalls /\ console' = MsgGenerateError) =>
            /\ pc' = "AWAITING_INPUT"
            /\ chat_history' = chat_history
            /\ exit_via' = "none"
      ]_vars

\* C2 witness: a generation failed while the history held an earlier exchange
C2_Witness ==
    /\ pc = "AWAITING_INPUT"
    /\ console = MsgGenerateError
    /\ EntryCount(chat_history) = 1

\* C3: a search that returns no result at or above the threshold (none at
\* all included) sends the loop straight back to AWAITING_INPUT; composer and
\* language model are not called and the history is unchanged.  The composer
\* is called only at COMPOSING and the model only at GENERATING, and
\* COMPOSING is entered only with a result that passes.
C3_NoRelevantContext ==
    [][ /\ (searchCalls' # searchCalls /\ console' # MsgRetrieveError
              /\ NonePasses(result')) =>
              /\ pc' = "AWAITING_INPUT"
              /\ UNCHANGED <<chat_history, composeCalls, llmCalls>>
        /\ (composeCalls' # composeCalls) => pc = "COMPOSING"
        /\ (llmCalls' # llmCalls) => pc = "GENERATING"
        /\ (pc' = "COMPOSING" /\ pc # "COMPOSING") => ~NonePasses(result')
      ]_vars

\* C3 witness: results were retrieved, none passed, and the loop awaits input
C3_Witness ==
    /\ pc = "AWAITING_INPUT"
    /\ console = MsgNoRelevant
    /\ Len(result) = 2
    /\ NonePasses(result)
    /\ EntryCount(chat_history) = 1

\* C4: a search that raises sends the loop back to AWAITING_INPUT without a
\* composer or language-model call and without a change of the history; the
\* next line can be read.
C4_RetrievalErrorIsRecoverable ==
    [][ (searchCalls' # searchCalls /\ console' = MsgRetrieveError) =>
            /\ pc' = "AWAITING_INPUT"
            /\ UNCHANGED <<chat_history, composeCalls, llmCalls, exit_via>>
      ]_vars

\* C4 witness: a query was taken after a search had raised
C4_Witness ==
    /\ pc = "AWAITING_INPUT"
    /\ console = MsgRetrieveError
    /\ EntryCount(chat_history) = 1

LineIsExactKeyword(l) == Lower(l) \in ExitKeywords
LineIsKeywordAfterStrip(l) == Lower(Strip(l)) \in ExitKeywords

\* C5 as stated: a line ends the loop exactly when it is, case aside, "quit"
\* or "exit".
C5_ExactMatchOnly ==
    /\ (pc = "TERMINATED" /\ exit_via = "break") => LineIsExactKeyword(line)
    /\ (pc = "RETRIEVING") => ~LineIsExactKeyword(line)

\* C5 amended: a line ends the loop exactly when, with leading and trailing
\* whitespace removed and case aside, it is "quit" or "exit"; it then makes no
\* search and no language-model call and leaves the history as it was.  Any
\* other line is searched for as a query, whitespace removed.
C5_ExitCommand ==
    [][ (nInputs' # nInputs) =>
            /\ LineIsKeywordAfterStrip(line') <=> (pc' = "TERMINATED")
            /\ LineIsKeywordAfterStrip(line') =>
                 /\ exit_via' = "break"
                 /\ UNCHANGED <<chat_history, searchCalls, composeCalls, llmCalls>>
            /\ ~LineIsKeywordAfterStrip(line') =>
                 /\ pc' = "RETRIEVING"
                 /\ user_query' = Strip(line')
                 /\ UNCHANGED chat_history
      ]_vars

\* C5 witness: " exit " as the first line ended the session untouched
C5_Witness ==
    /\ pc = "TERMINATED"
    /\ exit_via = "break"
    /\ nInputs = 1
    /\ ~LineIsExactKeyword(line)
    /\ chat_history = <<>>
    /\ searchCalls = 0
    /\ llmCalls = 0

\* C6 as stated: TERMINATED is entered from AWAITING_INPUT only.
C6_TerminatedOnlyFromAwaitingInput ==
    [][ (pc' = "TERMINATED" /\ pc # "TERMINATED") => pc = "AWAITING_INPUT" ]_vars

LoopTransitions ==
    { <<"INIT", "AWAITING_INPUT">>,
      <<"AWAITING_INPUT", "RETRIEVING">>,
      <<"RETRIEVING", "COMPOSING">>,
      <<"RETRIEVING", "AWAITING_INPUT">>,
      <<"COMPOSING", "GENERATING">>,
      <<"GENERATING", "CACHING">>,
      <<"GENERATING", "AWAITING_INPUT">>,
      <<"CACHING", "AWAITING_INPUT">> }

\* C6 amended: the loop follows INIT, AWAITING_INPUT, RETRIEVING, COMPOSING,
\* GENERATING, CACHING, AWAITING_INPUT (RETRIEVING and GENERATING may return
\* to AWAITING_INPUT early).  TERMINATED is entered from AWAITING_INPUT on an
\* exit command, or from any state of the loop on an interrupt; nothing else
\* enters it.  Outside the loop the process ends only by a failed start-up or
\* an uncaught error: end of input at the read, or an interrupt before the
\* loop.
C6_LoopStateMachine ==
    [][ (pc' # pc) =>
          \/ <<pc, pc'>> \in LoopTransitions
          \/ /\ pc' = "TERMINATED"
             /\ \/ pc = "AWAITING_INPUT" /\ exit_via' = "break"
                      /\ nInputs' = nInputs + 1
                \/ pc \in LoopStates /\ exit_via' = "KeyboardInterrupt"
          \/ pc' = "CRASHED" /\ pc \in {"START", "INIT", "AWAITING_INPUT"}
          \/ pc' = "ABORTED" /\ pc = "INIT"
          \/ pc = "START" /\ pc' \in {"INIT", "USAGE_ERROR"}
      ]_vars

\* C6 witness: an interrupt ended the session while an answer was generated
C6_Witness ==
    /\ pc = "TERMINATED"
    /\ exit_via = "KeyboardInterrupt"
    /\ console = MsgThanks
    /\ llmCalls = composeCalls - 1

\* C7: a Collection or language-model handle that cannot be opened aborts
\* the session with its message before any line is read: no search and no
\* generation is made.  The loop is entered only with both handles open.
C7_InitFailureIsFatal ==
    /\ (console \in {MsgDbError, MsgModelError}) => pc = "ABORTED"
    /\ (pc = "ABORTED") =>
          /\ console \in {MsgDbError, MsgModelError}
          /\ ~(chroma_db /\ llm)
          /\ nInputs = 0 /\ searchCalls = 0 /\ composeCalls = 0 /\ llmCalls = 0
          /\ ~ENABLED Next
    /\ (pc \in LoopStates \/ nInputs > 0 \/ searchCalls > 0 \/ llmCalls > 0) =>
          (chroma_db /\ llm)

\* C7 witness: the Collection opened, the language model did not
C7_Witness ==
    /\ pc = "ABORTED"
    /\ chroma_db
    /\ ~llm
    /\ console = MsgModelError

ContextLive == pc \in {"COMPOSING", "GENERATING", "CACHING"}

\* C8 as stated: the threshold is configuration.  A session started with a
\* threshold on its command line runs, and screens its results at that
\* threshold.
C8_ThresholdConfigurable ==
    ("--threshold" \in DOMAIN argv /\ pc # "START") =>
        /\ pc # "USAGE_ERROR"
        /\ ContextLive =>
              result_screen = ScreenResultsAt(result, argv["--threshold"])

\* C8, the part that holds of the screening loop with its fixed threshold: at
\* any two thresholds, the higher one keeps no more of a result list than the
\* lower one, and a result is kept exactly when its score is not below 0.7.
C8_ScreeningMonotone ==
    /\ \A t1, t2 \in 0..10 :
          t1 <= t2 =>
             Len(ScreenResultsAt(result, t2)) <= Len(ScreenResultsAt(result, t1))
    /\ ContextLive =>
          /\ \A i \in DOMAIN result_screen : result_screen[i].score >= Threshold
          /\ Len(result_screen) =
                Cardinality({ i \in DOMAIN result : result[i].score >= Threshold })

\* the indices of the results that pass, and the j-th of them in search order
PassingIndices(r) == { i \in DOMAIN r : r[i].score >= Threshold }
NthPassing(r, j) ==
    CHOOSE i \in PassingIndices(r) :
        Cardinality({ x \in PassingIndices(r) : x <= i }) = j

\* C9: the context block holds the texts of exactly the retrieved results (at
\* most top-k of them) whose score is at or above the threshold, in the order
\* the search returned them, with the delimiter between neighbours; that block
\* is what the composed prompt carries.
C9_ContextBlock ==
    ContextLive =>
        LET n == Cardinality(PassingIndices(result)) IN
        /\ Len(result) <= args.num_top_ans
        /\ n >= 1
        /\ Len(rag_context) = 2 * n - 1
        /\ \A j \in 1..n :
              <<rag_context[2 * j - 1]>> = PageContent(result[NthPassing(result, j)].doc)
        /\ \A j \in 1..(n - 1) : rag_context[2 * j] = ContextDelimiter
        /\ (pc \in {"GENERATING", "CACHING"}) =>
              SubSeq(prompt, 9, 8 + Len(rag_context)) = rag_context

\* C9 witness: of two results with scores 0.7 and 0.6, the first alone is the
\* context
C9_Witness ==
    /\ pc = "GENERATING"
    /\ Len(result) = 2
    /\ result[1].score = 7
    /\ result[2].score = 6
    /\ rag_context = PageContent(result[1].doc)

\* C9 second case: two passing results with equal scores, in search order
C9_WitnessTie ==
    /\ pc = "COMPOSING"
    /\ Len(result) = 2
    /\ result[1].score = result[2].score
    /\ result[1].doc = "chunk2"
    /\ rag_context = <<"chunk2", ContextDelimiter, "chunk1">>

-----------------------------------------------------------------------------
(* Properties of the sync log *)

NewestFirst(entries) ==
    \A i \in 1..(Len(entries) - 1) : entries[i].timestamp > entries[i + 1].timestamp

\* C10 as stated: after 60 scrape attempts the log holds exactly 50 entries.
C10_FiftyAfterSixtyAttempts ==
    (attempts >= 60) => (sync_log.state = "valid" /\ Len(sync_log.entries) = SyncLogCap)

\* C10 amended: the log never holds more than 50 entries and is ordered newest
\* first.  Only an attempt that fetched the page and found its sections adds
\* an entry: starting without a readable log, the log holds the 50 newest of
\* these attempts' entries, all of them while they are 50 or fewer, so exactly
\* 50 once 60 such attempts were made.
C10_SyncLogCap ==
    /\ Len(sync_log.entries) <= SyncLogCap
    /\ NewestFirst(sync_log.entries)
    /\ Len(sync_log.entries) = Min(SyncLogCap, saveCalls)
    /\ (saveCalls > 0) =>
          /\ sync_log.state = "valid"
          /\ sync_log.entries[1].timestamp = now - 1
    /\ (saveCalls >= 60) => Len(sync_log.entries) = SyncLogCap

\* C10 witness: sixty attempts, each logged, and the log is at its cap
C10_Witness ==
    /\ attempts = 60
    /\ saveCalls = 60
    /\ Len(sync_log.entries) = SyncLogCap
    /\ sync_log.entries[SyncLogCap].timestamp = 22

-----------------------------------------------------------------------------
(* Properties of a scrape run *)

\* the forecast date the page shows
CurrentDate == ForecastDates[forecast]

\* what the log file held that a run could read
Readable(file) == IF file.state = "valid" THEN file.entries ELSE <<>>

\* a step that is a run which reached save_discussion_data
IsSavingRun == saveCalls' # saveCalls

\* C11: a run for a forecast date that has no file yet creates the file and
\* logs "success"; a run for a date whose file exists leaves every file as it
\* is and adds exactly one entry, with status "already_exists", in front of
\* the log
C11_IdempotentScrape ==
    [][IsSavingRun =>
         /\ (CurrentDate \notin DOMAIN data_files /\ disk = "ok") =>
               /\ CurrentDate \in DOMAIN data_files'
               /\ data_files'[CurrentDate] =
                      [extracted |-> now, markdown_content |-> "discussion"]
               /\ \A x \in DOMAIN data_files : data_files'[x] = data_files[x]
               /\ sync_log'.entries[1].status = "success"
               /\ sync_log'.entries[1].forecast_date = CurrentDate
         /\ (CurrentDate \in DOMAIN data_files) =>
               /\ data_files' = data_files
               /\ sync_log'.state = "valid"
               /\ Len(sync_log'.entries) =
                      Min(SyncLogCap, Len(Readable(sync_log)) + 1)
               /\ sync_log'.entries[1].status = "already_exists"
               /\ sync_log'.entries[1].forecast_date = CurrentDate
               /\ \A i \in 2..Len(sync_log'.entries) :
                      sync_log'.entries[i] = Readable(sync_log)[i - 1]
      ]_vars

\* two runs for one date: the file is the first run's, the log holds
\* "already_exists" in front of "success"
C11_Witness ==
    /\ Len(sync_log.entries) = 2
    /\ sync_log.entries[1].status = "already_exists"
    /\ sync_log.entries[2].status = "success"
    /\ sync_log.entries[1].forecast_date = sync_log.entries[2].forecast_date
    /\ sync_log.entries[2].forecast_date \in DOMAIN data_files
    /\ data_files[sync_log.entries[2].forecast_date].extracted =
           sync_log.entries[2].timestamp - 1

\* C12: a run that cannot fetch the page, or does not find all the sections,
\* prints the reason and returns: it does not call save_discussion_data, and
\* it leaves the discussion files and the sync log as they were
C12_FailedAttemptWritesNothing ==
    [][(attempts' # attempts /\ site # "ok") =>
         /\ scrape_console' =
               (IF site = "unreachable" THEN MsgFetchError ELSE MsgSectionsMissing)
         /\ saveCalls' = saveCalls
         /\ data_files' = data_files
         /\ sync_log' = sync_log
      ]_vars

\* a run that found no sections, with a discussion file on disk
C12_Witness ==
    /\ scrape_console = MsgSectionsMissing
    /\ attempts > saveCalls
    /\ DOMAIN data_files # {}

\* C16: the status a run logs tells what the run did to the file: "success"
\* only when the run wrote the whole file, "already_exists" only when the file
\* was there before the run
C16_LogReflectsOutcome ==
    [][IsSavingRun =>
         /\ (sync_log'.entries[1].status = "success") =>
               /\ CurrentDate \notin DOMAIN data_files
               /\ CurrentDate \in DOMAIN data_files'
               /\ data_files'[CurrentDate] # PartialFile
         /\ (sync_log'.entries[1].status = "already_exists") =>
               CurrentDate \in DOMAIN data_files
      ]_vars

\* C17: a run that logs leaves in the file its own entry followed by the
\* first min(n, 49) of the n entries the file held, in their order
C17_PreservesExistingLog ==
    [][IsSavingRun =>
         /\ Len(sync_log'.entries) = Min(SyncLogCap, Len(sync_log.entries) + 1)
         /\ \A i \in 2..Len(sync_log'.entries) :
                sync_log'.entries[i] = sync_log.entries[i - 1]
      ]_vars

-----------------------------------------------------------------------------
(* Properties of the prompt composer *)

\* a step that calls rag_query_template
IsComposing == composeCalls' # composeCalls

\* C14: the prompt composed is, token for token, the role statement, the
\* instruction, a delimiter, the context label and the whole context block, a
\* delimiter, the history label and the whole history, the ignore-if-empty
\* note, a delimiter, and the question label and the whole query, with a blank
\* line after each; composing changes none of its three arguments, nor
\* anything but the prompt and the status line
C14_PromptStructure ==
    [][IsComposing =>
         /\ prompt' =
               <<PromptRole, NL2, PromptInstruction, NL2, PromptDelimiter, NL2,
                 PromptContextLabel, NL2>>
               \o rag_context
               \o <<NL2, PromptDelimiter, NL2, PromptHistoryLabel>>
               \o chat_history
               \o <<NL2, PromptIgnoreNote, NL2, PromptDelimiter, NL2,
                    PromptQuestionLabel>>
               \o user_query
               \o <<NL2>>
         /\ Len(prompt') = 19 + Len(rag_context) + Len(chat_history) + Len(user_query)
         /\ UNCHANGED <<rag_context, user_query, chat_history, response,
                        result, result_screen, args, chroma_db, llm>>
      ]_vars

\* a prompt composed from a context of two chunks and a history that is not
\* empty
C14_Witness ==
    /\ pc = "GENERATING"
    /\ composeCalls = 2
    /\ chat_history # <<>>
    /\ Len(rag_context) > 1
    /\ prompt[9] = rag_context[1]

-----------------------------------------------------------------------------
(* Properties of the index build *)

\* a step in which create_embedding_db returns
IsBuildCompleting == build_pc = "CLEANED" /\ build_pc' = "DONE"

\* the record of the collection made from chunk i by build b
RecordOf(b, i) ==
    [id |-> <<b, i>>, page_content |-> chunks[i].page_content,
     source |-> chunks[i].source, start_index |-> chunks[i].start_index]

\* C13: when a build completes, nothing was at the target path just before
\* the collection was created (what was there had been deleted), and the
\* collection then holds one record per chunk of the documents this build
\* loaded, each made by this build, and nothing else
C13_RebuildFromScratch ==
    [][IsBuildCompleting =>
         /\ ~chroma.exists
         /\ chroma.records = {}
         /\ chroma'.exists
         /\ Cardinality(chroma'.records) = Len(chunks)
         /\ \A i \in 1..Len(chunks) : RecordOf(builds, i) \in chroma'.records
         /\ \A r \in chroma'.records :
                /\ r.id[1] = builds
                /\ \E d \in 1..Len(documents) : documents[d].source = r.source
         /\ UNCHANGED <<chunks, documents>>
      ]_vars

\* a second build completed over the collection of the first, with chunks
C13_Witness ==
    /\ build_pc = "DONE"
    /\ builds = 2
    /\ Len(chunks) = 2
    /\ \A r \in chroma.records : r.id[1] = 2

-----------------------------------------------------------------------------
(* Properties of the chunker *)

\* chunks holds the chunks of documents
ChunksMade == build_pc \in {"CHUNKED", "CLEANED", "DONE", "FAILED"}

\* the chunks made from document d
ChunksFrom(d) == SelectSeq(chunks, LAMBDA c : c.source = documents[d].source)

IsBlank(text) == \A j \in 1..Len(text) : IsSpace(text[j])

\* C15 as stated: every document shorter than the maximum chunk length has
\* exactly one chunk, at offset 0
C15_OneChunkAtOffsetZero ==
    ChunksMade =>
        \A d \in 1..Len(documents) :
            Len(documents[d].page_content) < ChunkSize =>
                /\ Len(ChunksFrom(d)) = 1
                /\ ChunksFrom(d)[1].start_index = 0

\* C15: a document shorter than the maximum chunk length that is not blank
\* has exactly one chunk: the text between its first and its last character
\* that is not whitespace, at the offset of the first; a document that is
\* empty or blank has no chunk
C15_ShortDocumentChunks ==
    ChunksMade =>
        \A d \in 1..Len(documents) :
            LET text == documents[d].page_content
                mine == ChunksFrom(d)
            IN  Len(text) < ChunkSize =>
                  IF IsBlank(text) THEN mine = <<>>
                  ELSE /\ Len(mine) = 1
                       /\ LET c == mine[1].page_content
                              lead == mine[1].start_index
                          IN  /\ lead \in 0..(Len(text) - 1)
                              /\ c # <<>>
                              /\ ~IsSpace(c[1])
                              /\ ~IsSpace(c[Len(c)])
                              /\ lead + Len(c) <= Len(text)
                              /\ SubSeq(text, lead + 1, lead + Len(c)) = c
                              /\ \A j \in 1..Len(text) :
                                     (j <= lead \/ j > lead + Len(c)) => IsSpace(text[j])
                              /\ (~IsSpace(text[1])) => lead = 0

\* the chunks of a document that begins with whitespace and of a blank one
C15_Witness ==
    /\ ChunksMade
    /\ \E i \in 1..Len(chunks) : chunks[i].start_index > 0
    /\ \E d \in 1..Len(documents) :
          /\ documents[d].page_content # <<>>
          /\ IsBlank(documents[d].page_content)

====
